---- MODULE Spec2Model ----
(***************************************************************************)
(* Pepper AI tutor: the brain (main_brain_py3, a ZeroMQ REQ client) and    *)
(* the robot listener (robot_listener_py27, a ZeroMQ REP server).          *)
(*                                                                         *)
(* The listener exists in two builds: robot_listener.py (Choregraphe       *)
(* simulation: keyboard input, tablet failures swallowed) and              *)
(* "robot_listener - Copy.py" (real robot: speech recognition capture      *)
(* loop).  The variable `variant` says which build is running.             *)
(***************************************************************************)
EXTENDS Integers, Sequences, FiniteSets, TLC

VARIABLES
    variant,      \* "sim" (robot_listener.py) or "real" (robot_listener - Copy.py)
    \* ---- brain process (main_controller.py, robot_proxy.py)
    bpc,          \* call site the controller is at, or "start" / "exited"
    bphase,       \* "call": about to run _send_command; "wait": blocked in recv_json
    sock,         \* state of the REQ socket: "ready" or "awaiting"
    bElapsed,     \* ticks spent in the current recv_json
    resp,         \* what the last _send_command returned
    outcome,      \* transport event that ended the last _send_command
    exitStatus,   \* exit status of the brain process, -1 while it runs
    username,     \* login(): the name heard
    current_user, \* self.current_user
    servicesUp,   \* analytics / llm_gateway / orchestrator initialised
    pidx,         \* index into puzzles_to_play of the puzzle being run
    user_input,   \* run_puzzle(): the word heard
    \* ---- channel
    req,          \* requests queued at the listener's REP socket
    rep,          \* replies queued at the brain's REQ socket
    \* ---- other client of the listener's port (test_connection.py, any peer)
    oAwait,       \* the other client has a request outstanding
    tAwait,       \* test_connection.py has its request outstanding
    \* ---- listener process
    lpc,          \* "recv", "exec", "loop", "clear", "stop", "send", "dead", "rogue"
    lcmd,         \* the command being executed
    lresp,        \* the response execute_command returned
    \* ---- recognition capability (ALSpeechRecognition, ALMemory)
    recoVocab,    \* vocabulary set in the recogniser
    subscribed,   \* WordRecognized subscription active
    slot,         \* ALMemory key "WordRecognized": the last sample
    lElapsed,     \* ticks since start_time of the running capture loop
    recognized,   \* recognized_word of the running capture loop
    polled,       \* the capture loop has read the slot since the last Tick
    \* ---- history (observation only, never read by the program)
    outstanding,  \* brain commands sent and not yet answered to the brain
    pingState,    \* "none", then "ok" or "failed": how the start-up ping ended
    otherSent,    \* the brain sent a command other than ping
    bhist,        \* record of observations about the controller
                  \*   loginPrompts: times login() asked for the username
                  \*   loginListens: times login() called listen
                  \*   reprompts: empty results heard on the current puzzle
                  \*   hints:     generate_hint calls since the last puzzle listen
                  \*   records:   usage records written since the last puzzle listen
                  \*   hintArgs:  arguments of that generate_hint call
                  \*   recordFor: user_id of that usage record
                  \*   logFailed: the INSERT of that usage record raised
                  \*   ended:     how run_puzzle of the current puzzle returned
                  \*   lastSent, prevSent: call sites of the last two commands
                  \*              put on the channel
                  \*   restSent:  rest commands put on the channel
    hist          \* record of observations about the listener's current command
                  \*   capFailed: a capability call of its handler raised
                  \*   hiArrived: a sample above 0.4 was written before its deadline
                  \*   lastPoll:  what its last getData returned
                  \*   pending:   commands received and not yet answered
                  \*   sample:    "fresh" from a write of the recogniser until a
                  \*              listen accepts the sample, then "consumed"

vars == << variant, bpc, bphase, sock, bElapsed, resp, outcome, exitStatus,
           username, current_user, servicesUp, pidx, user_input,
           req, rep, oAwait, tAwait, lpc, lcmd, lresp,
           recoVocab, subscribed, slot, lElapsed, recognized, polled,
           outstanding, pingState, otherSent, bhist, hist >>

brainVars == << bpc, bphase, sock, bElapsed, resp, outcome, exitStatus,
                username, current_user, servicesUp, pidx, user_input,
                outstanding, pingState, otherSent, bhist >>

otherVars == << oAwait, tAwait >>

listenerVars == << lpc, lcmd, lresp >>

recoVars == << recoVocab, subscribed, slot, lElapsed, recognized, polled >>

----------------------------------------------------------------------------
(* Bounds of the model *)

\* messages that may queue in one direction of the channel
MaxQueue == 2
\* seconds of wall-clock time one Tick stands for
TickSeconds == 5
\* value at which the counters of bhist stop counting
MaxCount == 2
\* the command numbers of the history wrap at this value
SeqModulus == 4

(* Program constants *)

\* zmq.RCVTIMEO of the brain's socket, milliseconds
RcvTimeoMs == 10000
\* login(): listen(..., timeout=10)
LoginListenTimeout == 10
\* run_puzzle(): listen(..., timeout=15)
PuzzleListenTimeout == 15
\* execute_command: data.get("timeout", 10)
DefaultListenTimeout == 10
\* execute_command: word_data[1] > 0.4, in hundredths
ConfidenceThreshold == 40
\* len(puzzles_to_play)
NumPuzzles == 3

----------------------------------------------------------------------------
(* Data *)

Absent == "<absent>"

UserNames == {"Alex", "DrEvans"}
ControlWords == {"hint", "help", "quit", "skip"}

\* solution_keywords of the puzzles in the store (data of the deployment)
SolutionKeywords(p) ==
    CASE p = 1 -> {"cat"}
      [] p = 2 -> {"dog"}
      [] OTHER -> {"Sun"}

\* what an operator can type at the simulation's keyboard prompt
TypedInputs ==
    {"", "Alex", "Bob", "cat", "Cat", "dog", "Sun", "quit", "skip", "hint", "what"}

\* confidences the recogniser reports, in hundredths
Confidences == {30, 40, 41}

Actions == {"ping", "say", "play_animation", "show_image", "listen", "rest"}

\* str.lower() on the words of the model
Lower(w) ==
    CASE w = "Cat" -> "cat"
      [] w = "Sun" -> "sun"
      [] w = "Alex" -> "alex"
      [] w = "Bob" -> "bob"
      [] OTHER -> w

NoSample == [word |-> "", conf |-> 0]

----------------------------------------------------------------------------
(* Messages *)

Response(s, a, m, r) == [status |-> s, action |-> a, message |-> m, result |-> r]

NoResp == Response(Absent, Absent, Absent, Absent)

\* mutant: a success response that does not echo the action
OkNoEcho(a) == Response("ok", Absent, Absent, Absent)

\* {"status": "ok", "action": a}
Ok(a) == Response("ok", a, Absent, Absent)

Err(m) == Response("error", Absent, m, Absent)

\* a request as it sits in the listener's socket
Request(from, kind, action, dataok, vocab, timeout, name) ==
    [from |-> from, kind |-> kind, action |-> action, dataok |-> dataok,
     vocabulary |-> vocab, timeout |-> timeout, name |-> name, seq |-> 0]

NoCmd == Request("none", "command", Absent, TRUE, {}, 0, Absent)

\* a reply as it sits in a client's socket
Reply(kind, body) == [kind |-> kind, body |-> body, seq |-> 0]

\* history only: the message m marked with the number of the controller's
\* command it is, or answers (the wire carries no such number)
Tagged(m, n) == [m EXCEPT !.seq = n]

----------------------------------------------------------------------------
(* RobotProxy: the brain's end of the channel *)

\* str(e) of the exceptions recv_json / send_json can raise
ExcText(ev) ==
    CASE ev = "efsm" -> "Operation cannot be accomplished in current state"
      [] ev = "notjson" -> "Expecting value: line 1 column 1 (char 0)"
      [] OTHER -> "'list' object has no attribute 'get'"

\* mutant: a socket that lets a request follow a request (ZMQ_REQ_RELAXED)
SocketCanSendRelaxed(s) == s \in {"ready", "awaiting"}

\* a REQ socket accepts send only when no reply is awaited
SocketCanSend(s) == s = "ready"

\* mutant: _send_command without its "except Exception" clause
SendCommandResultNoCatchAll(ev, body) ==
    CASE ev = "reply" -> [raised |-> FALSE, resp |-> body]
      [] ev = "again" -> [raised |-> FALSE, resp |-> Err("No response from listener")]
      [] OTHER -> [raised |-> TRUE, resp |-> NoResp]

\* mutant: _send_command without its "except zmq.error.Again" clause
SendCommandResultNoAgain(ev, body) ==
    CASE ev = "reply" -> [raised |-> FALSE, resp |-> body]
      [] ev = "again" -> [raised |-> FALSE, resp |-> Err("Resource temporarily unavailable")]
      [] OTHER -> [raised |-> FALSE, resp |-> Err(ExcText(ev))]

\* _send_command: what it gives its caller for each transport event.
\*   "reply": recv_json returned the mapping `body`
\*   "again": recv_json raised zmq.error.Again (RCVTIMEO elapsed)
\*   "efsm": send_json raised ZMQError (reply still awaited)
\*   "notjson", "nonmapping": the reply was not a JSON mapping
SendCommandResult(ev, body) ==
    CASE ev = "reply" -> [raised |-> FALSE, resp |-> body]
      [] ev = "again" -> [raised |-> FALSE, resp |-> Err("No response from listener")]
      [] OTHER -> [raised |-> FALSE, resp |-> Err(ExcText(ev))]

\* response.get("result", "")
ResultOf(r) == IF r.result = Absent THEN "" ELSE r.result

Sites ==
    {"ping", "login_say_hello", "login_listen", "login_say_noname",
     "login_say_welcome", "login_say_ok", "login_say_sorry",
     "puzzle_show", "puzzle_say_q", "puzzle_listen", "puzzle_say_listening",
     "puzzle_anim_celebrate", "puzzle_say_correct", "puzzle_say_skip",
     "puzzle_anim_thinking", "puzzle_say_thought", "puzzle_say_hint",
     "session_say_next", "session_say_bye", "session_rest"}

\* the RobotProxy method called at each site
SiteAction(site) ==
    CASE site = "ping" -> "ping"
      [] site \in {"login_listen", "puzzle_listen"} -> "listen"
      [] site = "puzzle_show" -> "show_image"
      [] site \in {"puzzle_anim_celebrate", "puzzle_anim_thinking"} -> "play_animation"
      [] site = "session_rest" -> "rest"
      [] OTHER -> "say"

\* mutant: one vocabulary for the whole session, the keywords of every puzzle
PuzzleVocabularyOfAll(p) ==
    ControlWords \cup UNION { SolutionKeywords(q) : q \in 1..NumPuzzles }

\* vocabulary = ["hint", "help", "quit", "skip"] + puzzle['solution_keywords']
PuzzleVocabulary(p) == ControlWords \cup SolutionKeywords(p)

\* the command dict the RobotProxy method builds
CommandAt(site, p) ==
    CASE site = "login_listen" ->
            Request("brain", "command", "listen", TRUE, UserNames, LoginListenTimeout, Absent)
      [] site = "puzzle_listen" ->
            Request("brain", "command", "listen", TRUE, PuzzleVocabulary(p), PuzzleListenTimeout, Absent)
      [] site = "puzzle_anim_celebrate" ->
            Request("brain", "command", "play_animation", TRUE, {}, 0, "celebrate")
      [] site = "puzzle_anim_thinking" ->
            Request("brain", "command", "play_animation", TRUE, {}, 0, "thinking")
      [] OTHER ->
            Request("brain", "command", SiteAction(site), TRUE, {}, 0, Absent)

----------------------------------------------------------------------------
(* PuzzleTutorApp: the controller between two robot calls *)

\* the controller's variables as one record
Ctl == [bpc |-> bpc, exitStatus |-> exitStatus, username |-> username,
        current_user |-> current_user, servicesUp |-> servicesUp,
        pidx |-> pidx, user_input |-> user_input, obs |-> bhist]

NoArgs == [puzzle |-> 0, input |-> "", user |-> "None"]

NewBHist == [loginPrompts |-> 0, loginListens |-> 0, reprompts |-> 0,
             hints |-> 0, records |-> 0, hintArgs |-> NoArgs, recordFor |-> "None",
             ended |-> "none", lastSent |-> "none", prevSent |-> "none",
             restSent |-> 0, logFailed |-> FALSE, seq |-> 0]

\* run_puzzle returns: by its break after the success message ("solved"), by
\* its break after the skip message ("skipped"), or because get_puzzle
\* returned None ("missing")
Ended(c, how) == [c EXCEPT !.obs.ended = how]

\* the command of call site `site` has been handed to the socket
Sent(h, site) ==
    [h EXCEPT !.prevSent = h.lastSent,
              !.lastSent = site,
              !.seq = (@ + 1) % SeqModulus,
              !.restSent = IF site # "session_rest" \/ @ >= MaxCount THEN @ ELSE @ + 1]

\* one more of what counter f of bhist counts
Count(c, f) ==
    [c EXCEPT !.obs[f] = IF @ >= MaxCount THEN MaxCount ELSE @ + 1]

At(c, site) == [c EXCEPT !.bpc = site]

\* sys.exit(st), or main() returning (st = 0)
Exited(c, st) == [c EXCEPT !.bpc = "exited", !.exitStatus = st]

\* mutant: a session that presents the puzzle again once it has ended
EndPuzzleAgain(c) == [c EXCEPT !.bpc = "puzzle_show"]

\* run_puzzle_session: what follows run_puzzle(puzzles_to_play[c.pidx])
EndPuzzle(c) ==
    IF c.pidx # NumPuzzles THEN At(c, "session_say_next") ELSE At(c, "session_say_bye")

\* mutant: a run_puzzle without its "if not puzzle: return"
RunPuzzleUnchecked(c, p) ==
    LET d == [c EXCEPT !.pidx = p, !.user_input = "", !.obs.reprompts = 0,
                       !.obs.ended = "none",
                       !.obs.hints = 0, !.obs.records = 0,
                       !.obs.hintArgs = NoArgs, !.obs.recordFor = "None",
                       !.obs.logFailed = FALSE] IN
       { Exited(d, 1) }             \* get_puzzle raises, main() catches it
       \cup { Exited(Ended(d, "missing"), 1) }     \* puzzle[...] on None raises
       \cup { At(d, "puzzle_show") }

\* run_puzzle(puzzles_to_play[p]) up to its first robot call
RunPuzzle(c, p) ==
    LET d == [c EXCEPT !.pidx = p, !.user_input = "", !.obs.reprompts = 0,
                       !.obs.ended = "none",
                       !.obs.hints = 0, !.obs.records = 0,
                       !.obs.hintArgs = NoArgs, !.obs.recordFor = "None",
                       !.obs.logFailed = FALSE] IN
       { Exited(d, 1) }             \* get_puzzle raises, main() catches it
       \cup { EndPuzzle(Ended(d, "missing")) }    \* get_puzzle returns None
       \cup { At(d, "puzzle_show") }

\* mutant: an authenticate whose None is taken for a user
AuthenticateUnchecked(c) ==
    { Exited(c, 1) }
    \cup { At([c EXCEPT !.current_user = "None"], "login_say_ok") }
    \cup IF c.username \in UserNames
         THEN { At([c EXCEPT !.current_user = c.username], "login_say_ok") }
         ELSE {}

\* db.authenticate_user(username, pin) and what login() does with it
Authenticate(c) ==
    { Exited(c, 1) }                                            \* the query raises
    \cup { At([c EXCEPT !.current_user = "None"], "login_say_sorry") }
    \cup IF c.username \in UserNames
         THEN { At([c EXCEPT !.current_user = c.username], "login_say_ok") }
         ELSE {}

\* mutant: a run_puzzle without its "elif user_input in [quit, skip]" branch
PuzzleBranchNoSkip(c, u) ==
    LET d == [c EXCEPT !.user_input = u, !.obs.hints = 0, !.obs.records = 0,
                       !.obs.hintArgs = NoArgs, !.obs.recordFor = "None",
                       !.obs.logFailed = FALSE] IN
    IF u = "" THEN At(Count(d, "reprompts"), "puzzle_say_listening")
    ELSE IF Lower(u) \in SolutionKeywords(c.pidx) THEN At(d, "puzzle_anim_celebrate")
    ELSE At(d, "puzzle_anim_thinking")

\* mutant: a run_puzzle that skips the puzzle after a second empty result
PuzzleBranchGiveUp(c, u) ==
    LET d == [c EXCEPT !.user_input = u, !.obs.hints = 0, !.obs.records = 0,
                       !.obs.hintArgs = NoArgs, !.obs.recordFor = "None",
                       !.obs.logFailed = FALSE] IN
    IF u = "" THEN IF c.obs.reprompts >= 1 THEN At(d, "puzzle_say_skip")
                   ELSE At(Count(d, "reprompts"), "puzzle_say_listening")
    ELSE IF Lower(u) \in SolutionKeywords(c.pidx) THEN At(d, "puzzle_anim_celebrate")
    ELSE IF u \in {"quit", "skip"} THEN At(d, "puzzle_say_skip")
    ELSE At(d, "puzzle_anim_thinking")

\* run_puzzle: the branch taken on the word heard
PuzzleBranch(c, u) ==
    LET d == [c EXCEPT !.user_input = u, !.obs.hints = 0, !.obs.records = 0,
                       !.obs.hintArgs = NoArgs, !.obs.recordFor = "None",
                       !.obs.logFailed = FALSE] IN
    IF u = "" THEN At(Count(d, "reprompts"), "puzzle_say_listening")
    ELSE IF Lower(u) \in SolutionKeywords(c.pidx) THEN At(d, "puzzle_anim_celebrate")
    ELSE IF u \in {"quit", "skip"} THEN At(d, "puzzle_say_skip")
    ELSE At(d, "puzzle_anim_thinking")

\* mutant: a log_llm_call without its try / except
LogLlmCallUnguarded(c) ==
    { At([Count(c, "records") EXCEPT !.obs.recordFor = c.current_user],
         "puzzle_say_hint"),
      Exited([c EXCEPT !.obs.logFailed = TRUE], 1) }

\* self.analytics.log_llm_call(user_id, model_name, response_time), then on to
\* self.robot.say(hint): the INSERT writes the record, or it raises and
\* log_llm_call swallows the exception
LogLlmCall(c) ==
    { At([Count(c, "records") EXCEPT !.obs.recordFor = c.current_user],
         "puzzle_say_hint"),
      At([c EXCEPT !.obs.logFailed = TRUE], "puzzle_say_hint") }

\* mutant: a controller that writes the usage record even when generate_hint raised
GenerateHintAlwaysLogged(c) ==
    LET h == [Count(c, "hints") EXCEPT
                 !.obs.hintArgs = [puzzle |-> c.pidx, input |-> c.user_input,
                                    user |-> c.current_user]] IN
       { Exited([Count(h, "records") EXCEPT !.obs.recordFor = c.current_user], 1) }
       \cup LogLlmCall(h)

\* hint = self.orchestrator.generate_hint(puzzle, user_input, profile), then
\* log_llm_call; an exception of generate_hint is caught by main() only
GenerateHint(c) ==
    LET h == [Count(c, "hints") EXCEPT
                 !.obs.hintArgs = [puzzle |-> c.pidx, input |-> c.user_input,
                                    user |-> c.current_user]] IN
       { Exited(h, 1) } \cup LogLlmCall(h)

\* login(): self.robot.say("Hello, please say your username to begin.")
Login(c) == At(Count(c, "loginPrompts"), "login_say_hello")

\* mutant: __init__ ignoring what ping() returned
AfterPingIgnored(c, r) == { Login(c) }

\* __init__: if not self.robot.ping(): sys.exit(1); then main() calls login()
AfterPing(c, r) ==
    IF r.status = "ok" THEN { Login(c) } ELSE { Exited(c, 1) }

\* mutant: a login() that asks for the name again after an empty result
AfterLoginListenRetry(c, r) ==
    IF ResultOf(r) = "" THEN { At(Count(c, "loginListens"), "login_listen") }
    ELSE { At([c EXCEPT !.username = ResultOf(r)], "login_say_welcome") }

\* login(): username = self.robot.listen(...); if not username: say, return False
AfterLoginListen(c, r) ==
    IF ResultOf(r) = "" THEN { At(c, "login_say_noname") }
    ELSE { At([c EXCEPT !.username = ResultOf(r)], "login_say_welcome") }

\* mutant: a main() that starts login() again when it returned False
LoginFailedRetry(c) == { Login(c) }

\* login() returned False: main() skips the session and returns
LoginFailed(c) == { Exited(c, 0) }

\* the controller states that can follow the return of response r at c.bpc
Continue(c, r) ==
    CASE c.bpc = "ping" -> AfterPing(c, r)
      [] c.bpc = "login_say_hello" -> { At(Count(c, "loginListens"), "login_listen") }
      [] c.bpc = "login_listen" -> AfterLoginListen(c, r)
      [] c.bpc = "login_say_noname" -> LoginFailed(c)
      [] c.bpc = "login_say_welcome" -> Authenticate(c)
      [] c.bpc = "login_say_ok" ->
            { Exited(c, 1) }      \* LangChainOrchestrator() raises
            \cup RunPuzzle([c EXCEPT !.servicesUp = TRUE], 1)
      [] c.bpc = "login_say_sorry" -> LoginFailed(c)
      [] c.bpc = "puzzle_show" -> { At(c, "puzzle_say_q") }
      [] c.bpc = "puzzle_say_q" -> { At(c, "puzzle_listen") }
      [] c.bpc = "puzzle_listen" -> { PuzzleBranch(c, ResultOf(r)) }
      [] c.bpc = "puzzle_say_listening" -> { At(c, "puzzle_listen") }
      [] c.bpc = "puzzle_anim_celebrate" -> { At(c, "puzzle_say_correct") }
      [] c.bpc = "puzzle_say_correct" -> { EndPuzzle(Ended(c, "solved")) }
      [] c.bpc = "puzzle_say_skip" -> { EndPuzzle(Ended(c, "skipped")) }
      [] c.bpc = "puzzle_anim_thinking" -> { At(c, "puzzle_say_thought") }
      [] c.bpc = "puzzle_say_thought" -> GenerateHint(c)
      [] c.bpc = "puzzle_say_hint" -> { At(c, "puzzle_listen") }
      [] c.bpc = "session_say_next" -> RunPuzzle(c, c.pidx + 1)
      [] c.bpc = "session_say_bye" -> { At(c, "session_rest") }
      [] OTHER -> { Exited(c, 0) }   \* session_rest: the session is over

SetCtl(n) ==
    /\ bpc' = n.bpc
    /\ exitStatus' = n.exitStatus
    /\ username' = n.username
    /\ current_user' = n.current_user
    /\ servicesUp' = n.servicesUp
    /\ pidx' = n.pidx
    /\ user_input' = n.user_input
    /\ bhist' = n.obs

\* _send_command returns (or raises) and the controller runs to its next call
Return(ev, body) ==
    LET res == SendCommandResult(ev, body) IN
    /\ bphase' = "call"
    /\ bElapsed' = 0
    /\ IF res.raised
       THEN /\ SetCtl(Exited(Ctl, 1))    \* main(): except Exception, sys.exit(1)
            /\ outcome' = "raised"
            /\ UNCHANGED << resp, pingState >>
       ELSE /\ resp' = res.resp
            /\ outcome' = ev
            /\ pingState' = IF bpc # "ping" THEN pingState
                            ELSE IF res.resp.status = "ok" THEN "ok" ELSE "failed"
            /\ \E n \in Continue(Ctl, res.resp) : SetCtl(n)

\* main(): PuzzleTutorApp() up to the ping
BrainStart ==
    /\ bpc = "start"
    /\ \/ SetCtl(At(Ctl, "ping"))
       \/ SetCtl(Exited(Ctl, 1))          \* DatabaseManager() raises
    /\ UNCHANGED << bphase, sock, bElapsed, resp, outcome, outstanding,
                    pingState, otherSent >>
    /\ UNCHANGED << variant, req, rep, hist >>
    /\ UNCHANGED otherVars /\ UNCHANGED listenerVars /\ UNCHANGED recoVars

\* _send_command: socket.send_json(command)
SendCommand ==
    /\ bpc \in Sites
    /\ bphase = "call"
    /\ IF SocketCanSend(sock)
       THEN /\ Len(req) < MaxQueue
            /\ req' = Append(req, Tagged(CommandAt(bpc, pidx), Sent(bhist, bpc).seq))
            /\ sock' = "awaiting"
            /\ bphase' = "wait"
            /\ bElapsed' = 0
            /\ outstanding' = IF outstanding > MaxQueue THEN outstanding
                               ELSE outstanding + 1
            /\ otherSent' = (otherSent \/ bpc # "ping")
            /\ bhist' = Sent(bhist, bpc)
            /\ UNCHANGED << bpc, exitStatus, username, current_user, servicesUp,
                            pidx, user_input, resp, outcome, pingState >>
       ELSE /\ Return("efsm", NoResp)
            /\ UNCHANGED << req, sock, outstanding, otherSent >>
    /\ UNCHANGED << variant, rep, hist >>
    /\ UNCHANGED otherVars /\ UNCHANGED listenerVars /\ UNCHANGED recoVars

\* _send_command: socket.recv_json() returns a message
RecvReply ==
    /\ bphase = "wait"
    /\ rep # << >>
    /\ LET m == Head(rep) IN
          Return(IF m.kind = "mapping" THEN "reply" ELSE m.kind, m.body)
    /\ rep' = Tail(rep)
    /\ sock' = "ready"
    /\ outstanding' = outstanding - 1
    /\ UNCHANGED << variant, req, otherSent, hist >>
    /\ UNCHANGED otherVars /\ UNCHANGED listenerVars /\ UNCHANGED recoVars

\* _send_command: socket.recv_json() raises zmq.error.Again
RecvTimeout ==
    /\ bphase = "wait"
    /\ rep = << >>
    /\ bElapsed * TickSeconds * 1000 >= RcvTimeoMs
    /\ Return("again", NoResp)
    /\ UNCHANGED << variant, req, rep, sock, outstanding, otherSent, hist >>
    /\ UNCHANGED otherVars /\ UNCHANGED listenerVars /\ UNCHANGED recoVars

----------------------------------------------------------------------------
(* The listener: main() serving loop and RobotController.execute_command *)

\* "Error executing action '{}': {}".format(action, e)
ExecErrorText(a) ==
    CASE a = "say" -> "Error executing action 'say'"
      [] a = "play_animation" -> "Error executing action 'play_animation'"
      [] a = "show_image" -> "Error executing action 'show_image'"
      [] a = "rest" -> "Error executing action 'rest'"
      [] a = "listen" -> "Error executing action 'listen'"
      [] OTHER -> "Error executing action"

\* "Behavior '{}' not found.".format(behavior_name)
NotFoundText(n) ==
    CASE n = "celebrate" -> "Behavior 'celebrate' not found."
      [] n = "thinking" -> "Behavior 'thinking' not found."
      [] OTHER -> "Behavior 'None' not found."

\* an outcome of execute_command: the response, and whether a capability call raised
Outcome(r, failed) ==
    [resp |-> r, capFailed |-> failed, installed |-> "n/a", ran |-> FALSE]

\* an outcome of play_animation: also whether the requested behavior was installed
\* on the robot and whether a behavior was started
AnimOutcome(r, failed, inst, started) ==
    [resp |-> r, capFailed |-> failed, installed |-> inst, ran |-> started]

\* the text of the exception ALAnimationPlayer.run raises is NAOqi's: it may or
\* may not quote the path it was given
RunErrorText(n) ==
    CASE n = "celebrate" ->
           "Error executing action 'play_animation': interactive_puzzles/celebrate"
      [] n = "thinking" ->
           "Error executing action 'play_animation': interactive_puzzles/thinking"
      [] OTHER -> ExecErrorText("play_animation")

\* mutant: a handler that swallows the failure and reports success
CaughtSwallowed(a) == Outcome(Ok(a), TRUE)

\* the except clause of execute_command
Caught(a) == Outcome(Err(ExecErrorText(a)), TRUE)

\* data.get(...) on a data that is not a mapping raises AttributeError inside the try
BadData(a) == Outcome(Err(ExecErrorText(a)), FALSE)

\* robot_listener.py: show_image swallows a failing tablet call
ShowImageSim == { Outcome(Ok("show_image"), FALSE), Outcome(Ok("show_image"), TRUE) }

\* robot_listener - Copy.py: show_image
ShowImageReal == { Outcome(Ok("show_image"), FALSE), Caught("show_image") }

\* robot_listener.py: listen reads the keyboard and returns what was typed
ListenSim ==
    { Outcome(Response("ok", "listen", Absent, w), FALSE) : w \in TypedInputs }
    \cup { Caught("listen") }          \* raw_input raises (EOF)

\* robot_listener.py: play_animation asks the behavior manager first
PlayAnimationSim(n) ==
    { AnimOutcome(Ok("play_animation"), FALSE, "yes", TRUE),       \* runBehavior returned
      AnimOutcome(Err(NotFoundText(n)), FALSE, "no", FALSE),       \* not installed
      AnimOutcome(Err(ExecErrorText("play_animation")), TRUE, "yes", TRUE),
                                                                   \* runBehavior raised
      AnimOutcome(Err(ExecErrorText("play_animation")), TRUE, "unknown", FALSE) }
                                                                   \* the lookup raised

\* robot_listener - Copy.py: play_animation runs "interactive_puzzles/" + name
\* without asking whether it is installed
PlayAnimationReal(n) ==
    IF n = Absent
    THEN { BadData("play_animation") }                 \* str + None: TypeError
    ELSE { AnimOutcome(Ok("play_animation"), FALSE, "yes", TRUE),
           AnimOutcome(Err(ExecErrorText("play_animation")), TRUE, "yes", TRUE),
           AnimOutcome(Err(ExecErrorText("play_animation")), TRUE, "no", FALSE),
           AnimOutcome(Err(RunErrorText(n)), TRUE, "no", FALSE) }

\* the actions whose handler reads `data`
ReadsData == {"say", "play_animation", "show_image", "listen"}

\* execute_command of robot_listener.py, every outcome the capabilities allow
ExecuteSim(c) ==
    IF c.action = "ping" THEN { Outcome(Ok("ping"), FALSE) }
    ELSE IF c.action = "rest" THEN { Outcome(Ok("rest"), FALSE), Caught("rest") }
    ELSE IF c.action \notin ReadsData THEN { Outcome(Err("Unknown action"), FALSE) }
    ELSE IF ~c.dataok THEN { BadData(c.action) }
    ELSE IF c.action = "say" THEN { Outcome(Ok("say"), FALSE), Caught("say") }
    ELSE IF c.action = "play_animation" THEN PlayAnimationSim(c.name)
    ELSE IF c.action = "show_image" THEN ShowImageSim
    ELSE ListenSim

\* execute_command of robot_listener - Copy.py (no ping branch), listen apart:
\* its capture loop is the actions ListenBegin, ListenPoll, ListenClear, ListenStop
ExecuteReal(c) ==
    IF c.action = "rest" THEN { Outcome(Ok("rest"), FALSE), Caught("rest") }
    ELSE IF c.action \notin ReadsData THEN { Outcome(Err("Unknown action"), FALSE) }
    ELSE IF ~c.dataok THEN { BadData(c.action) }
    ELSE IF c.action = "say" THEN { Outcome(Ok("say"), FALSE), Caught("say") }
    ELSE IF c.action = "play_animation" THEN PlayAnimationReal(c.name)
    ELSE IF c.action = "show_image" THEN ShowImageReal
    ELSE { Caught("listen") }

ExecuteCommand(v, c) == IF v = "sim" THEN ExecuteSim(c) ELSE ExecuteReal(c)

\* main(): json.loads(message_str) and command.get("action") run outside any try
ServeDecode(kind) == IF kind = "command" THEN "exec" ELSE "dead"

\* an action name json.loads returned as a unicode string with a character
\* outside ASCII
NonAsciiAction == "dans<e9>"

\* execute_command: print("... Received command: '{}'".format(action)), before
\* the try: str.format (Python 2) encodes a unicode argument as ASCII and
\* raises UnicodeEncodeError when it cannot
LogReceived(c) == IF c.action = NonAsciiAction THEN "dead" ELSE "exec"

\* mutant: a serving loop that takes the next request while a handler runs
CanRecvWhileBusy(pc) == pc \in {"recv", "exec"}

\* the serving loop blocks in socket.recv() only between two commands
CanRecv(pc) == pc = "recv"

NewHist == [capFailed |-> FALSE, hiArrived |-> FALSE, lastPoll |-> NoSample,
            pending |-> 0, sample |-> "none", installed |-> "n/a", ran |-> FALSE,
            written |-> FALSE]

\* main(): message_str = socket.recv(); command = json.loads(message_str);
\* execute_command(command) up to its try
ListenerRecv ==
    /\ CanRecv(lpc)
    /\ req # << >>
    /\ LET m == Head(req) IN
          /\ lpc' = IF ServeDecode(m.kind) = "dead" THEN "dead" ELSE LogReceived(m)
          /\ lcmd' = m
          /\ hist' = [NewHist EXCEPT !.pending =
                         hist.pending + (IF m.kind = "command" THEN 1 ELSE 0),
                                     !.sample = hist.sample]
    /\ req' = Tail(req)
    /\ lresp' = NoResp
    /\ UNCHANGED << variant, rep >>
    /\ UNCHANGED brainVars /\ UNCHANGED otherVars /\ UNCHANGED recoVars

\* the handlers that hold no loop
IsCaptureLoop(v, c) == v = "real" /\ c.action = "listen" /\ c.dataok

\* robot_listener.py: the listen handler blocks in raw_input("YOU SAY: ")
IsKeyboardListen(v, c) == v = "sim" /\ c.action = "listen" /\ c.dataok

\* robot_controller.execute_command(command), every handler that does not wait
\* for input
Execute ==
    /\ lpc = "exec"
    /\ ~IsCaptureLoop(variant, lcmd)
    /\ ~IsKeyboardListen(variant, lcmd)
    /\ \E o \in ExecuteCommand(variant, lcmd) :
          /\ lresp' = o.resp
          /\ hist' = [hist EXCEPT !.capFailed = o.capFailed, !.installed = o.installed,
                                  !.ran = o.ran]
    /\ lpc' = "send"
    /\ UNCHANGED << variant, req, rep, lcmd >>
    /\ UNCHANGED brainVars /\ UNCHANGED otherVars /\ UNCHANGED recoVars

\* robot_listener.py, listen: raw_input returns what the operator typed (or
\* raises at end of input); until then the handler blocks, whatever the timeout
KeyboardInput ==
    /\ lpc = "exec"
    /\ IsKeyboardListen(variant, lcmd)
    /\ \E o \in ExecuteCommand(variant, lcmd) :
          /\ lresp' = o.resp
          /\ hist' = [hist EXCEPT !.capFailed = o.capFailed, !.installed = o.installed,
                                  !.ran = o.ran]
    /\ lpc' = "send"
    /\ UNCHANGED << variant, req, rep, lcmd >>
    /\ UNCHANGED brainVars /\ UNCHANGED otherVars /\ UNCHANGED recoVars

\* main(): socket.send_json(response), then back to socket.recv()
ListenerSend ==
    /\ lpc = "send"
    /\ IF lcmd.from = "brain"
       THEN /\ Len(rep) < MaxQueue
            /\ rep' = Append(rep, Tagged(Reply("mapping", lresp), lcmd.seq))
            /\ UNCHANGED otherVars
       ELSE /\ oAwait' = (oAwait /\ lcmd.from # "other")
            /\ tAwait' = (tAwait /\ lcmd.from # "test")
            /\ UNCHANGED rep
    /\ lpc' = "recv"
    /\ lcmd' = NoCmd
    /\ lresp' = NoResp
    /\ hist' = [hist EXCEPT !.pending = hist.pending - 1]
    /\ UNCHANGED << variant, req >>
    /\ UNCHANGED brainVars /\ UNCHANGED recoVars

----------------------------------------------------------------------------
(* The capture loop of the real listener's listen, and the recogniser *)

\* mutant: an acceptance that leaves the sample in ALMemory
RemoveDataKept(s) == s

\* self.memory.removeData("WordRecognized"): what the slot holds afterwards
RemoveData(s) == NoSample

\* mutant: a threshold test that lets a sample at exactly 0.4 through
AcceptAtThreshold(s) == s.word # "" /\ s.conf >= ConfidenceThreshold

\* if word_data and word_data[0] and word_data[1] > 0.4
Accept(s) == s.word # "" /\ s.conf > ConfidenceThreshold

\* timeout = data.get("timeout", 10); a negative field stands for a missing one
TimeoutOf(c) == IF c.timeout < 0 THEN DefaultListenTimeout ELSE c.timeout

\* while time.time() - start_time < timeout
BeforeDeadline(e, c) == e * TickSeconds < TimeoutOf(c)

\* the except clause reached from inside the listen handler
ListenFails ==
    /\ lresp' = Caught("listen").resp
    /\ hist' = [hist EXCEPT !.capFailed = TRUE]
    /\ lpc' = "send"

\* listen: pause, setVocabulary, pause, subscribe, start_time = time.time()
ListenBegin ==
    /\ lpc = "exec"
    /\ IsCaptureLoop(variant, lcmd)
    /\ \/ /\ recoVocab' = lcmd.vocabulary
          /\ subscribed' = TRUE
          /\ lElapsed' = 0
          /\ recognized' = ""
          /\ polled' = FALSE
          /\ lpc' = "loop"
          /\ UNCHANGED << lresp, hist, slot >>
       \/ /\ ListenFails
          /\ UNCHANGED recoVars
    /\ UNCHANGED << variant, req, rep, lcmd >>
    /\ UNCHANGED brainVars /\ UNCHANGED otherVars

\* listen: one turn of the while loop (the test, getData, the if, sleep)
ListenPoll ==
    /\ lpc = "loop"
    /\ IF BeforeDeadline(lElapsed, lcmd)
       THEN \/ /\ ListenFails                     \* getData raises
               /\ UNCHANGED recoVars
            \/ /\ Accept(slot)
               /\ recognized' = slot.word
               /\ lpc' = "clear"
               /\ hist' = [hist EXCEPT !.lastPoll = slot, !.written = FALSE]
               /\ UNCHANGED << lresp, recoVocab, subscribed, slot, lElapsed, polled >>
            \/ /\ ~Accept(slot)                    \* time.sleep(0.1)
               /\ hist' = [hist EXCEPT !.lastPoll = slot]
               /\ polled' = TRUE
               /\ UNCHANGED << lpc, lresp, recoVocab, subscribed, slot, lElapsed,
                               recognized >>
       ELSE /\ lpc' = "stop"
            /\ UNCHANGED << lresp, hist >>
            /\ UNCHANGED recoVars
    /\ UNCHANGED << variant, req, rep, lcmd >>
    /\ UNCHANGED brainVars /\ UNCHANGED otherVars

\* listen: self.memory.removeData("WordRecognized") and the break; the call
\* comes after getData as a call of its own, and the recogniser runs meanwhile
ListenClear ==
    /\ lpc = "clear"
    /\ \/ /\ slot' = RemoveData(slot)
          /\ lpc' = "stop"                          \* break
          /\ hist' = [hist EXCEPT !.sample = "consumed"]
          /\ UNCHANGED << lresp, recoVocab, subscribed, lElapsed, recognized, polled >>
       \/ /\ ListenFails                          \* removeData raises
          /\ UNCHANGED recoVars
    /\ UNCHANGED << variant, req, rep, lcmd >>
    /\ UNCHANGED brainVars /\ UNCHANGED otherVars

\* listen: unsubscribe("WordRecognized") and the return
ListenStop ==
    /\ lpc = "stop"
    /\ \/ /\ subscribed' = FALSE
          /\ lresp' = Response("ok", "listen", Absent, recognized)
          /\ lpc' = "send"
          /\ UNCHANGED << hist, recoVocab, slot, lElapsed, recognized, polled >>
       \/ /\ ListenFails                          \* unsubscribe raises
          /\ UNCHANGED recoVars
    /\ UNCHANGED << variant, req, rep, lcmd >>
    /\ UNCHANGED brainVars /\ UNCHANGED otherVars

\* the recogniser writes a sample of a vocabulary word to ALMemory
CapWrite ==
    /\ subscribed
    /\ \E w \in recoVocab, c \in Confidences :
          /\ slot' = [word |-> w, conf |-> c]
          /\ hist' = [hist EXCEPT
                        !.sample = "fresh",
                        !.written = (lpc = "clear"),
                        !.hiArrived = hist.hiArrived
                            \/ (lpc = "loop" /\ BeforeDeadline(lElapsed, lcmd)
                                /\ c > ConfidenceThreshold)]
    /\ UNCHANGED << variant, req, rep, recoVocab, subscribed, lElapsed, recognized,
                    polled >>
    /\ UNCHANGED brainVars /\ UNCHANGED otherVars /\ UNCHANGED listenerVars

----------------------------------------------------------------------------
(* Time, and the other ends of the channel *)

BrainTimerRuns == bphase = "wait" /\ bElapsed * TickSeconds * 1000 < RcvTimeoMs

\* the loop reads the slot every 0.1 s: no Tick passes without a poll
LoopTimerRuns == lpc = "loop" /\ BeforeDeadline(lElapsed, lcmd)

LoopStarved == LoopTimerRuns /\ ~polled

\* TickSeconds of time pass
Tick ==
    /\ BrainTimerRuns \/ LoopTimerRuns
    /\ ~LoopStarved
    /\ bElapsed' = IF BrainTimerRuns THEN bElapsed + 1 ELSE bElapsed
    /\ lElapsed' = IF LoopTimerRuns THEN lElapsed + 1 ELSE lElapsed
    /\ polled' = FALSE
    /\ UNCHANGED << variant, bpc, bphase, sock, resp, outcome, exitStatus,
                    username, current_user, servicesUp, pidx, user_input,
                    outstanding, pingState, otherSent, bhist,
                    req, rep, recoVocab, subscribed, slot, recognized, hist >>
    /\ UNCHANGED otherVars /\ UNCHANGED listenerVars

\* what another client of port 5555 may send
OtherMessages ==
    { Request("other", k, Absent, TRUE, {}, -1, Absent) : k \in {"notjson", "nonmapping"} }
    \cup { Request("other", "command", a, d, {}, -1, Absent) :
              a \in {"ping", "say", "show_image", "rest", "dance"}, d \in BOOLEAN }
    \cup { Request("other", "command", NonAsciiAction, TRUE, {}, -1, Absent) }
    \cup { Request("other", "command", "play_animation", d, {}, -1, n) :
              d \in BOOLEAN, n \in {"celebrate", Absent} }
    \cup { Request("other", "command", "listen", d, v, t, Absent) :
              d \in BOOLEAN, v \in {{}, {"cat"}, UserNames}, t \in {-1, TickSeconds} }

\* test_connection.py, or any peer: socket.send(...) on its own REQ socket
OtherSend ==
    /\ ~oAwait
    /\ lpc # "rogue"
    /\ Len(req) < MaxQueue
    /\ \E m \in OtherMessages : req' = Append(req, m)
    /\ oAwait' = TRUE
    /\ UNCHANGED << variant, rep, tAwait, hist >>
    /\ UNCHANGED brainVars /\ UNCHANGED listenerVars /\ UNCHANGED recoVars

\* test_connection.py: socket.send_json({"action": "say", "data": {"text": ...}})
TestSend ==
    /\ ~tAwait
    /\ lpc # "rogue"
    /\ Len(req) < MaxQueue
    /\ req' = Append(req, Request("test", "command", "say", TRUE, {}, -1, Absent))
    /\ tAwait' = TRUE
    /\ UNCHANGED << variant, rep, oAwait, hist >>
    /\ UNCHANGED brainVars /\ UNCHANGED listenerVars /\ UNCHANGED recoVars

\* port 5555 is served by a process that is not the listener: it answers
\* the brain with something that is not a JSON mapping
RogueReply ==
    /\ lpc = "rogue"
    /\ req # << >>
    /\ Len(rep) < MaxQueue
    /\ \E k \in {"notjson", "nonmapping"} : rep' = Append(rep, Reply(k, NoResp))
    /\ req' = Tail(req)
    /\ UNCHANGED << variant, hist >>
    /\ UNCHANGED brainVars /\ UNCHANGED otherVars /\ UNCHANGED listenerVars
    /\ UNCHANGED recoVars

----------------------------------------------------------------------------
(* Specifications *)

InitCommon ==
    /\ variant \in {"sim", "real"}
    /\ bphase = "call"
    /\ sock = "ready"
    /\ bElapsed = 0
    /\ resp = NoResp
    /\ outcome = "none"
    /\ exitStatus = -1
    /\ username = ""
    /\ current_user = "None"
    /\ servicesUp = FALSE
    /\ pidx = 0
    /\ user_input = ""
    /\ req = << >>
    /\ rep = << >>
    /\ oAwait = FALSE
    /\ tAwait = FALSE
    /\ lcmd = NoCmd
    /\ lresp = NoResp
    /\ recoVocab = {}
    /\ subscribed = FALSE
    /\ slot = NoSample
    /\ lElapsed = 0
    /\ recognized = ""
    /\ polled = FALSE
    /\ outstanding = 0
    /\ pingState = "none"
    /\ otherSent = FALSE
    /\ bhist = NewBHist
    /\ hist = NewHist

\* the brain is started against a port served by the listener, by nothing,
\* or by some other process
Init ==
    /\ InitCommon
    /\ bpc = "start"
    /\ lpc \in {"recv", "dead", "rogue"}

\* the serving loop and the handlers without a loop
NextServe ==
    \/ ListenerRecv
    \/ Execute
    \/ KeyboardInput
    \/ ListenerSend
    \/ Tick

\* the capture loop of robot_listener - Copy.py and the recogniser
NextCapture ==
    \/ ListenBegin
    \/ ListenPoll
    \/ ListenClear
    \/ ListenStop
    \/ CapWrite

NextBrain ==
    \/ BrainStart
    \/ SendCommand
    \/ RecvReply
    \/ RecvTimeout
    \/ RogueReply

\* The brain with what serves its port.  robot_listener - Copy.py has no
\* ping branch, so against it the brain exits at the start-up ping and no
\* listen ever reaches the capture loop: its actions are left to SpecListener.
Next == NextBrain \/ NextServe

Spec == Init /\ [][Next]_vars

\* Both processes are scheduled and the clock advances: every step of the
\* controller and of the serving loop that can be taken is taken, and the
\* operator answers the keyboard prompt.
SessionFairness ==
    /\ WF_vars(BrainStart)
    /\ WF_vars(SendCommand)
    /\ WF_vars(RecvReply)
    /\ WF_vars(RecvTimeout)
    /\ WF_vars(ListenerRecv)
    /\ WF_vars(Execute)
    /\ WF_vars(KeyboardInput)
    /\ WF_vars(ListenerSend)
    /\ WF_vars(Tick)

LiveSession == Spec /\ SessionFairness

\* the listener alone, serving whatever reaches its port
InitListener ==
    /\ InitCommon
    /\ bpc = "off"
    /\ lpc = "recv"

NextListener == NextServe \/ NextCapture \/ OtherSend \/ TestSend

SpecListener == InitListener /\ [][NextListener]_vars

\* The listener process is scheduled and its clock advances: every step of the
\* serving loop and of the capture loop that can be taken is taken.  What the
\* operator types, what the recogniser hears and what clients send is up to
\* the environment and gets no fairness.
ListenerFairness ==
    /\ WF_vars(ListenerRecv)
    /\ WF_vars(Execute)
    /\ WF_vars(ListenerSend)
    /\ WF_vars(ListenBegin)
    /\ WF_vars(ListenPoll)
    /\ WF_vars(ListenClear)
    /\ WF_vars(ListenStop)
    /\ WF_vars(Tick)

LiveListener == InitListener /\ [][NextListener]_vars /\ ListenerFairness

----------------------------------------------------------------------------
(* Claims C1 - C10 *)

\* brain commands somewhere between the brain's send and the brain's recv
InFlight ==
    Cardinality({ i \in 1..Len(req) : req[i].from = "brain" })
    + (IF lcmd.from = "brain" /\ lpc \in {"exec", "loop", "clear", "stop", "send"} THEN 1 ELSE 0)
    + Len(rep)

\* C1: at most one Command of the brain is outstanding at any time: the brain
\* never sends a Command while the Response to an earlier one has not been
\* received, also after a receive timeout.
C1_OneOutstanding == outstanding <= 1 /\ InFlight <= 1

\* C1 witness: a receive timed out, the controller called _send_command again,
\* the socket refused the send and the first Command is still the only one out.
C1_Witness == outcome = "efsm" /\ outstanding = 1 /\ lpc = "send"

\* C2 (as claimed): a transport failure is a failure of that one command; the
\* next command is still handed to the channel, so no _send_command ends with
\* its command refused because of an earlier one.
C2_FailureIsLocal == outcome # "efsm"

\* C3: _send_command never raises; whatever the transport does it returns a
\* mapping with status ok or error, and every outcome that is not a received
\* reply has status error and a message.
C3_SendNeverRaises ==
    /\ outcome # "raised"
    /\ outcome # "none" => resp.status \in {"ok", "error"}
    /\ outcome \in {"again", "efsm", "notjson", "nonmapping"} =>
          resp.status = "error" /\ resp.message # Absent

\* C3 witness: a reply that is not JSON reached recv_json and came back to the
\* controller as an error response.
C3_Witness == outcome = "notjson" /\ resp.status = "error" /\ bpc = "exited"

\* C4 (as claimed): on a receive timeout _send_command returns exactly
\* {status: error, message: "no response from listener"}.
C4_TimeoutResponseLowercase ==
    outcome = "again" => resp = Err("no response from listener")

\* C4 (amended): on a receive timeout _send_command returns exactly
\* {status: error, message: "No response from listener"} and does not raise.
C4_TimeoutResponse ==
    outcome = "again" => resp = Err("No response from listener")

\* C4 witness: the listener answered a say too late and the brain timed out.
C4_Witness == outcome = "again" /\ bpc = "login_listen" /\ lpc # "dead"

\* a capability call of the current command's handler raised
HandlerFailed == lpc = "send" /\ hist.capFailed

\* C5 (as claimed): for every action, a failing capability call gives a
\* {status: error, message} response.
C5_EveryFailureIsError ==
    HandlerFailed => lresp.status = "error" /\ lresp.message # Absent

\* C5 (amended): a failing capability call gives {status: error, message} for
\* every action except show_image on robot_listener.py, which answers ok; in
\* every case the serving loop sends the reply and waits for the next Command.
C5_FailureIsErrorButSimImage ==
    [][ /\ (HandlerFailed /\ ~(variant = "sim" /\ lcmd.action = "show_image"))
            => (lresp.status = "error" /\ lresp.message # Absent)
        /\ (HandlerFailed /\ variant = "sim" /\ lcmd.action = "show_image")
            => lresp = Ok("show_image")
        /\ (HandlerFailed /\ lpc' # lpc)
            => (lpc' = "recv" /\ hist'.pending = 0) ]_vars

\* C5 witness: the speech capability raised in a listen of the real listener
\* and the error response is about to be sent.
C5_Witness ==
    HandlerFailed /\ lcmd.action = "listen" /\ variant = "real" /\ subscribed
    /\ lresp.status = "error"

\* C6 (as claimed): no message terminates the listener process.
C6_ListenerNeverDies == lpc # "dead"

\* the listener holds a command it has received and not yet answered
Serving == lpc \in {"exec", "loop", "clear", "stop", "send"}

C8_PingGate ==
    /\ otherSent => pingState = "ok"
    /\ pingState = "failed" => bpc = "exited" /\ exitStatus = 1 /\ ~otherSent

\* C8 witness: the ping timed out and the brain has exited.
C8_Witness == pingState = "failed" /\ outcome = "again" /\ bpc = "exited"

\* a listen of the current command has produced its ok response
ListenDone == lpc = "send" /\ lcmd.action = "listen" /\ lresp.status = "ok"

\* C9 (as claimed): the result of a listen is the empty string or a word of
\* the vocabulary given in that command.
C9_ResultInVocabulary ==
    ListenDone => lresp.result = "" \/ lresp.result \in lcmd.vocabulary

\* C9, the real listener alone: the same statement for the capture loop.
C9_ResultInVocabularyReal ==
    ListenDone /\ variant = "real" =>
        lresp.result = "" \/ lresp.result \in lcmd.vocabulary

\* C10 (as claimed): a listen returns the empty result exactly when no sample
\* above 0.4 arrived in the slot before the deadline.
C10_EmptyIffNoSampleArrived ==
    ListenDone /\ variant = "real" => (lresp.result = "" <=> ~hist.hiArrived)

\* C10 (amended): a listen of the capture loop returns a non-empty result
\* exactly when its last read of the slot, made before the deadline, found a
\* non-empty word with confidence above 0.4, and the result is that word; a
\* sample at or below 0.4 is never accepted.
C10_ResultIsAcceptedPoll ==
    ListenDone /\ variant = "real" =>
        /\ lresp.result # "" =>
              hist.lastPoll.conf > ConfidenceThreshold
              /\ hist.lastPoll.word = lresp.result
        /\ (hist.lastPoll.word # "" /\ hist.lastPoll.conf > ConfidenceThreshold) =>
              lresp.result = hist.lastPoll.word

\* C10 witness: a sample above the threshold arrived before the deadline, was
\* overwritten by one at 0.3 before the loop read the slot, and the listen
\* ends empty.
C10_Witness ==
    ListenDone /\ variant = "real" /\ hist.hiArrived /\ lresp.result = ""
    /\ hist.lastPoll.conf = 30

----------------------------------------------------------------------------
(* Claims C11 - C20 *)

\* C11: a sample accepted by a listen is cleared from the slot at acceptance:
\* from then until the recogniser writes again the slot is empty, so no later
\* listen can accept the same sample and a second listen runs to its deadline
\* and returns the empty string.
C11_AcceptedSampleCleared == hist.sample # "fresh" => slot = NoSample

\* C11 witness: an earlier listen accepted the only sample, nothing was written
\* since, and the following listen ran to its deadline and returns "".
C11_Witness ==
    ListenDone /\ variant = "real" /\ hist.sample = "consumed"
    /\ lresp.result = "" /\ ~BeforeDeadline(lElapsed, lcmd) /\ TimeoutOf(lcmd) > 0

\* C12 (as claimed): whenever a listen handler has finished, by acceptance, by
\* the deadline or by a capability call failing inside the loop, the
\* WordRecognized subscription has been removed before the Response is sent,
\* and none is active between two commands.
C12_UnsubscribedWhenDone ==
    /\ (lpc = "send" /\ lcmd.action = "listen") => ~subscribed
    /\ lpc = "recv" => ~subscribed

\* the listener holds a listen command whose handler has not returned yet
ListenRunning == lpc \in {"exec", "loop", "clear", "stop"} /\ lcmd.action = "listen"

\* C13 (as claimed): every listen command eventually produces a Response; the
\* handler never blocks beyond its deadline waiting for input.
C13_ListenResponds == ListenRunning ~> lpc = "send"

\* C13, the capture loop alone: a listen of robot_listener - Copy.py always
\* produces a Response.
C13_CaptureLoopResponds == (ListenRunning /\ variant = "real") ~> lpc = "send"

SessionSites ==
    {"puzzle_show", "puzzle_say_q", "puzzle_listen", "puzzle_say_listening",
     "puzzle_anim_celebrate", "puzzle_say_correct", "puzzle_say_skip",
     "puzzle_anim_thinking", "puzzle_say_thought", "puzzle_say_hint",
     "session_say_next", "session_say_bye", "session_rest"}

\* C16: the controller is in the session only after a successful
\* authentication: whenever a puzzle command is issued, a hint is generated or
\* a usage record is written, current_user is a user authenticate returned and
\* the hint and analytics services have been initialised.
C16_SessionOnlyAfterLogin ==
    /\ bpc \in SessionSites =>
          current_user \in UserNames /\ current_user = username /\ servicesUp
    /\ bhist.hints > 0 => bhist.hintArgs.user \in UserNames /\ servicesUp
    /\ bhist.records > 0 => bhist.recordFor \in UserNames /\ servicesUp

\* C16 witness: a hint was generated and its usage record written for Alex.
C16_Witness ==
    bpc = "puzzle_say_hint" /\ current_user = "Alex" /\ bhist.hints = 1
    /\ bhist.records = 1

\* the controller leaves call site `site` in this step
Leaves(site) == bpc = site /\ bpc' # bpc

\* no hint is generated and no usage record written in this step
NoHintStep == bhist'.hints = 0 /\ bhist'.records = 0

\* the controller goes on to what follows run_puzzle without changing puzzle
Advances == bpc' \in {"session_say_next", "session_say_bye"} /\ pidx' = pidx

\* C17 (as claimed): a listen result that is one of the puzzle's
\* solution_keywords leads to Solved: celebrate animation, success message,
\* no hint call, no usage record, then the next puzzle.
C17_KeywordSolves ==
    [][ /\ (Leaves("puzzle_listen") /\ ResultOf(resp') \in SolutionKeywords(pidx))
              => (bpc' = "puzzle_anim_celebrate" /\ NoHintStep)
        /\ Leaves("puzzle_anim_celebrate")
              => (bpc' = "puzzle_say_correct" /\ NoHintStep)
        /\ Leaves("puzzle_say_correct") => (Advances /\ NoHintStep) ]_vars

\* C17, lower-case results only: a listen result whose lower-case form is one
\* of the solution_keywords leads to Solved.
C17_LowerCaseKeywordSolves ==
    [][ /\ (Leaves("puzzle_listen") /\ ResultOf(resp') # ""
             /\ Lower(ResultOf(resp')) \in SolutionKeywords(pidx))
              => (bpc' = "puzzle_anim_celebrate" /\ NoHintStep)
        /\ Leaves("puzzle_anim_celebrate")
              => (bpc' = "puzzle_say_correct" /\ NoHintStep)
        /\ Leaves("puzzle_say_correct") => (Advances /\ NoHintStep) ]_vars

\* C18: a listen result equal to quit or skip leads to Skipped: the skip is
\* announced, no success feedback is played, no hint is generated, and the
\* controller advances to the next puzzle.
C18_SkipAdvances ==
    [][ /\ (Leaves("puzzle_listen") /\ ResultOf(resp') \in {"quit", "skip"})
              => (bpc' = "puzzle_say_skip" /\ NoHintStep)
        /\ Leaves("puzzle_say_skip") => (Advances /\ NoHintStep)
        /\ Leaves("session_say_next") => pidx' = pidx + 1 ]_vars

\* C18 witness: quit was heard on the first puzzle, the skip was announced and
\* the controller is about to announce the next puzzle.
C18_Witness ==
    bpc = "session_say_next" /\ user_input = "quit" /\ pidx = 1
    /\ resp.status = "ok" /\ bhist.hints = 0

\* C19 (as claimed): a non-empty listen result that is neither a solution
\* keyword nor quit/skip invokes the hint generator exactly once with (puzzle,
\* result, user profile), one usage record is written, the hint is spoken and
\* the controller listens again on the same puzzle.
C19_HintOnceAndStay ==
    [][ /\ (Leaves("puzzle_listen") /\ ResultOf(resp') # ""
             /\ ResultOf(resp') \notin SolutionKeywords(pidx) \cup {"quit", "skip"})
              => (bpc' = "puzzle_anim_thinking" /\ user_input' = ResultOf(resp'))
        /\ Leaves("puzzle_anim_thinking") => bpc' = "puzzle_say_thought"
        /\ Leaves("puzzle_say_thought")
              => /\ bpc' = "puzzle_say_hint"
                 /\ bhist'.hints = 1
                 /\ bhist'.hintArgs = [puzzle |-> pidx, input |-> user_input,
                                        user |-> current_user]
                 /\ bhist'.records = 1
                 /\ bhist'.recordFor = current_user
        /\ Leaves("puzzle_say_hint") => (bpc' = "puzzle_listen" /\ pidx' = pidx) ]_vars

\* C20: an empty listen result in the puzzle loop leads to the reprompt say
\* and then to another listen on the same puzzle; puzzle and user are
\* unchanged, no hint is generated, no usage record written, and nothing
\* bounds the number of repetitions.
C20_EmptyReprompts ==
    [][ /\ (Leaves("puzzle_listen") /\ ResultOf(resp') = "")
              => /\ bpc' = "puzzle_say_listening"
                 /\ pidx' = pidx /\ current_user' = current_user
                 /\ NoHintStep
        /\ Leaves("puzzle_say_listening")
              => /\ bpc' = "puzzle_listen"
                 /\ pidx' = pidx /\ current_user' = current_user
                 /\ NoHintStep ]_vars

\* C20 witness: the reprompt has been said MaxCount times on the second puzzle and
\* the controller listens once more.
C20_Witness ==
    bpc = "puzzle_listen" /\ bhist.reprompts = MaxCount /\ pidx = 2
    /\ user_input = ""

----------------------------------------------------------------------------
(* Claims C21 - C30 *)

\* main() has returned after run_puzzle_session ran to its end
SessionCompleted == bpc = "exited" /\ exitStatus = 0 /\ servicesUp

\* C21 (as claimed): in every session that completes the rest command is sent
\* exactly once, it is the last command sent, the closing say is sent just
\* before it, and neither is sent before the last puzzle ended in Solved or
\* Skipped.
C21_RestOnceAndLast ==
    /\ SessionCompleted =>
          /\ bhist.restSent = 1
          /\ bhist.lastSent = "session_rest"
          /\ bhist.prevSent = "session_say_bye"
    /\ bhist.lastSent \in {"session_say_bye", "session_rest"} =>
          pidx = NumPuzzles /\ bhist.ended \in {"solved", "skipped"}

\* C21, the calls of the controller: in every session that completes the
\* controller has called say with the closing message and then rest, once
\* each and after the last run_puzzle returned, whether or not the socket took
\* the commands.
C21_RestCalledLast ==
    [][ /\ Leaves("session_rest") => (bpc' = "exited" /\ exitStatus' = 0)
        /\ Leaves("session_say_bye") => bpc' = "session_rest"
        /\ (bpc' = "session_say_bye" /\ bpc # bpc')
              => (pidx' = NumPuzzles /\ bhist'.ended # "none")
        /\ (SessionCompleted' /\ ~SessionCompleted) => bpc = "session_rest" ]_vars

\* C22: a failure of the analytics write does not propagate to the session:
\* when the INSERT of the usage row raises, the brain keeps running, the hint
\* is spoken and the controller listens again on the same puzzle.
C22_LogFailureSwallowed ==
    [][ /\ bhist.logFailed =>
              /\ bpc \in {"puzzle_say_hint", "puzzle_listen"}
              /\ exitStatus = -1
              /\ bhist.records = 0
              /\ pidx = bhist.hintArgs.puzzle
        /\ (bhist.logFailed /\ Leaves("puzzle_say_hint"))
              => (bpc' = "puzzle_listen" /\ pidx' = pidx /\ exitStatus' = -1) ]_vars

\* C22 witness: the INSERT failed, the hint was sent to the listener and
\* answered ok, and the controller is about to listen on the same puzzle.
C22_Witness ==
    bhist.logFailed /\ bpc = "puzzle_listen" /\ bhist.lastSent = "puzzle_say_hint"
    /\ resp = Ok("say") /\ bphase = "call"

\* what follows run_puzzle in run_puzzle_session and after it
AfterPuzzleSites == {"session_say_next", "session_say_bye", "session_rest", "exited"}

\* C23: when get_puzzle returns None the puzzle is skipped: no show_image,
\* question say or listen is issued for it, the session does not abort, and
\* the controller goes on to the next puzzle or, after the last one, to the
\* end of the session.
C23_MissingPuzzleSkipped ==
    [][ /\ bhist.ended = "missing" =>
              /\ bpc \in AfterPuzzleSites
              /\ bpc = "exited" => exitStatus = 0
              /\ bpc = "session_say_next" <=> pidx # NumPuzzles
        /\ (bhist.ended = "missing" /\ Leaves("session_say_next"))
              => (pidx' = pidx + 1 /\ bhist'.ended \in {"none", "missing"})
        /\ (bhist.ended = "missing" /\ Leaves("session_say_bye"))
              => bpc' = "session_rest" ]_vars

\* C23 witness: the second puzzle is not in the store: nothing was sent since
\* its announcement and the controller is about to announce the third.
C23_Witness ==
    bhist.ended = "missing" /\ bpc = "session_say_next" /\ pidx = 2
    /\ bhist.lastSent = "session_say_next" /\ bphase = "call" /\ outcome = "reply"

\* execute_command has returned the Response of the current Command
Responded == lpc = "send"

\* C24: every Response execute_command produces has status ok or error; it
\* has a message exactly when its status is error; it has a result only when
\* the Command was a listen; and an ok Response echoes the Command's action.
C24_ResponseShape ==
    Responded =>
        /\ lresp.status \in {"ok", "error"}
        /\ lresp.message # Absent <=> lresp.status = "error"
        /\ lresp.result # Absent => lcmd.action = "listen"
        /\ lresp.status = "ok" => lresp.action = lcmd.action

\* C24 witness: the keyboard listen answered ok with the word typed, echoing
\* the action and carrying no message.
C24_Witness ==
    Responded /\ variant = "sim" /\ lcmd.action = "listen"
    /\ lresp = Response("ok", "listen", Absent, "Bob")

\* the listener has received a Command whose action is none of the six
UnknownActionReceived ==
    lcmd.from # "none" /\ lcmd.kind = "command" /\ lcmd.action \notin Actions

\* C25 (as claimed): a Command whose action is none of ping, say,
\* play_animation, show_image, listen, rest is answered with exactly
\* {status: error, message: "Unknown action"}, no capability is invoked and
\* the listener keeps serving.
C25_UnknownAction ==
    UnknownActionReceived =>
        /\ lpc \in {"exec", "send"}
        /\ lpc = "send" => (lresp = Err("Unknown action") /\ ~hist.capFailed)

\* C25, ASCII action names only: the same statement for a Command whose
\* unknown action name is plain ASCII.
C25_AsciiUnknownAction ==
    (UnknownActionReceived /\ lcmd.action # NonAsciiAction) =>
        /\ lpc \in {"exec", "send"}
        /\ lpc = "send" => (lresp = Err("Unknown action") /\ ~hist.capFailed)

\* C26 (as claimed): a show_image command returns status ok also when the
\* display capability is unavailable or its call fails.
C26_ShowImageAlwaysOk ==
    (Responded /\ lcmd.action = "show_image" /\ lcmd.dataok) =>
        lresp = Ok("show_image")

\* C26, robot_listener.py alone: its show_image answers ok whether or not the
\* tablet call failed.
C26_SimShowImageOk ==
    (Responded /\ lcmd.action = "show_image" /\ lcmd.dataok /\ variant = "sim") =>
        lresp = Ok("show_image")

\* a message that names the requested behavior
NamesBehavior(m, n) == m \in {NotFoundText(n), RunErrorText(n)} \ {ExecErrorText("play_animation")}

PlayAnimationAnswered ==
    Responded /\ lcmd.action = "play_animation" /\ lcmd.dataok /\ lcmd.name # Absent

\* C27: a play_animation command for a behavior that is not installed runs
\* nothing and is answered with status error and a message naming the
\* requested behavior; for an installed behavior (whose run does not fail) the
\* behavior is run and the answer is {status: ok, action: play_animation}.
C27_PlayAnimation ==
    PlayAnimationAnswered =>
        /\ hist.installed = "no" =>
              (~hist.ran /\ lresp.status = "error"
                 /\ NamesBehavior(lresp.message, lcmd.name))
        /\ (hist.installed = "yes" /\ ~hist.capFailed) =>
              (hist.ran /\ lresp = Ok("play_animation"))

\* C27 holds of robot_listener.py, which asks isBehaviorInstalled first
C27_SimPlayAnimation ==
    (PlayAnimationAnswered /\ variant = "sim") =>
        /\ hist.installed = "no" =>
              (~hist.ran /\ lresp = Err(NotFoundText(lcmd.name)))
        /\ (hist.installed = "yes" /\ ~hist.capFailed) =>
              (hist.ran /\ lresp = Ok("play_animation"))

\* the step in which the controller puts a puzzle-loop listen on the channel
PuzzleListenIssued ==
    /\ bpc = "puzzle_listen" /\ bphase = "call" /\ bphase' = "wait"
    /\ Len(req') = Len(req) + 1

\* C28: every listen command issued in the puzzle loop carries as vocabulary
\* exactly hint, help, quit, skip together with the solution keywords of the
\* puzzle being played, and no keyword that belongs to another puzzle only.
C28_PuzzleListenVocabulary ==
    [][ PuzzleListenIssued =>
          LET m == req'[Len(req')]
          IN /\ m.from = "brain" /\ m.action = "listen"
             /\ m.vocabulary = {"hint", "help", "quit", "skip"} \cup SolutionKeywords(pidx)
             /\ \A q \in (1..NumPuzzles) \ {pidx} :
                   (m.vocabulary \cap SolutionKeywords(q)) \subseteq SolutionKeywords(pidx)
      ]_vars

C28_Witness ==
    /\ bpc = "puzzle_listen" /\ bphase = "wait" /\ pidx = 2
    /\ lcmd.from = "brain" /\ lcmd.action = "listen" /\ lpc = "exec"
    /\ lcmd.vocabulary = {"hint", "help", "quit", "skip", "dog"}

\* the step in which _send_command returns what recv_json gave it
ReplyReturned ==
    /\ bphase = "wait" /\ rep # << >> /\ rep' = Tail(rep)
    /\ Head(rep).kind = "mapping"

\* the step in which the listener sends the controller its reply
ReplySent ==
    /\ lpc = "send" /\ lcmd.from = "brain" /\ Len(rep') = Len(rep) + 1

\* C29: the Response _send_command returns for a Command is the Response the
\* dispatcher produced for that same Command, unmodified: the listener replies
\* with the dispatcher's response to the command it took, and the controller
\* returns the reply only to the command it answers, never to a later one.
C29_ReplyMatchesCommand ==
    [][ /\ ReplySent =>
              rep'[Len(rep')] = Tagged(Reply("mapping", lresp), lcmd.seq)
        /\ ReplyReturned =>
              (Head(rep).seq = bhist.seq /\ resp' = Head(rep).body
                 /\ outcome' = "reply")
      ]_vars

\* a reply that came after the receive timed out lies unread while a later
\* command has been refused by the socket
C29_Witness ==
    /\ rep # << >> /\ Head(rep).kind = "mapping" /\ Head(rep).seq = bhist.seq
    /\ outcome = "efsm" /\ sock = "awaiting"

\* C30: for every listen the controller issues, the channel's receive timeout
\* outlasts the listen: the listen is answered by the listener (ok with an
\* empty result when nothing was heard), never by the transport-timeout error
\* _send_command makes up while the listener is still in the listen.
C30_ListenOutlastedByChannel ==
    [][ \A site \in {"login_listen", "puzzle_listen"} :
          (/\ bpc = site /\ bphase = "wait" /\ bphase' = "call"
           /\ lpc = "exec" /\ lcmd.from = "brain" /\ lcmd.action = "listen") =>
              (outcome' # "again" /\ resp' # Err("No response from listener"))
      ]_vars

\* robot_listener - Copy.py: a listen that heard nothing is answered only once
\* its own deadline has passed (15 s and 10 s for the controller's listens,
\* against the 10,000 ms the controller waits)
C30_SilentListenLastsToDeadline ==
    (/\ Responded /\ variant = "real" /\ lcmd.action = "listen"
     /\ lresp = Response("ok", "listen", Absent, "")) =>
        lElapsed * TickSeconds >= TimeoutOf(lcmd)

----------------------------------------------------------------------------
(* Claims C31 - C36 *)

\* the step in which the capture loop clears the slot after accepting a sample
ClearsSlot == lpc = "clear" /\ lpc' = "stop"

\* C31: with the recogniser writing to the slot while the capture loop runs,
\* the clear done on acceptance removes only the sample that was read and
\* accepted: no sample written between the loop's getData and its removeData
\* is destroyed by the clear.
C31_ClearRemovesOnlyAccepted ==
    [][ ClearsSlot => (~hist.written /\ slot = hist.lastPoll) ]_vars

\* without a write in between, the clear removes the accepted sample
C31_ClearWithoutWrite ==
    [][ (ClearsSlot /\ ~hist.written) =>
           (slot = hist.lastPoll /\ slot.word = recognized /\ slot' = NoSample) ]_vars

\* the call sites of say, play_animation, show_image and rest
EffectSites ==
    { s \in Sites : SiteAction(s) \in {"say", "play_animation", "show_image", "rest"} }

\* _send_command returns to the controller from one of those sites
\* (with a reply or a timeout, or at once when the socket refuses the send)
EffectReturns ==
    /\ bpc \in EffectSites
    /\ \/ bphase = "wait" /\ bphase' = "call"
       \/ bphase = "call" /\ sock = "awaiting" /\ brainVars' # brainVars

\* C32: an error Response to say, play_animation, show_image or rest, be it
\* the listener's or one made up after a transport failure, never aborts the
\* session and never changes what follows: the controller goes where it goes
\* after an ok Response; after the celebrate animation that is the success
\* message of the solved puzzle.
C32_EffectErrorsIgnored ==
    [][ EffectReturns =>
          /\ outcome' # "raised"
          /\ Ctl' \in Continue(Ctl, Ok(SiteAction(bpc)))
          /\ bpc = "puzzle_anim_celebrate" => bpc' = "puzzle_say_correct"
      ]_vars

\* the celebrate animation was answered with an error and the controller is
\* about to send the success message
C32_Witness ==
    /\ bpc = "puzzle_say_correct" /\ bphase = "call"
    /\ outcome = "reply" /\ resp = Err(NotFoundText("celebrate"))
    /\ bhist.lastSent = "puzzle_anim_celebrate"

\* the call sites inside run_puzzle's while loop and its two ways out
LoopSites ==
    {"puzzle_listen", "puzzle_say_listening", "puzzle_anim_celebrate",
     "puzzle_say_correct", "puzzle_say_skip", "puzzle_anim_thinking",
     "puzzle_say_thought", "puzzle_say_hint"}

\* a listen of puzzle p has just returned one of p's solution keywords, quit or skip
ListenReturnedAnswer(p) ==
    /\ pidx = p /\ bhist.lastSent = "puzzle_listen" /\ bphase = "call"
    /\ outcome = "reply" /\ resp.status = "ok"
    /\ ResultOf(resp) \in SolutionKeywords(p) \cup {"quit", "skip"}

\* the closing message and rest have been sent and the brain has terminated
SessionEnded ==
    /\ SessionCompleted
    /\ bhist.lastSent = "session_rest" /\ bhist.prevSent = "session_say_bye"

\* C33: if for every puzzle some listen eventually returns a solution keyword
\* or quit / skip, a logged-in session eventually reaches its completion: the
\* closing message and rest are sent and the brain terminates.
C33_SessionCompletes ==
    (\A p \in 1..NumPuzzles : <>ListenReturnedAnswer(p))
        => ((bpc \in SessionSites) ~> SessionEnded)

\* C33, second half: the puzzle loop is left only through Solved or Skipped
C33_LoopLeftBySolvedOrSkipped ==
    [][ (bpc \in LoopSites /\ bpc' \notin LoopSites) =>
           (bhist'.ended \in {"solved", "skipped"}
              /\ bpc' \in {"session_say_next", "session_say_bye"}) ]_vars

\* the controller comes to present a puzzle (show_image of run_puzzle) in this step
Presents == bpc' = "puzzle_show" /\ bpc # "puzzle_show"

\* C34: puzzles are played in the order puzzle_01, puzzle_02, puzzle_03: the
\* index of the current puzzle never decreases and moves one puzzle at a time,
\* a puzzle is presented only when the index has just moved to it (so at most
\* once), and the index moves on only after the previous puzzle has ended
\* Solved, Skipped or not found.
C34_PuzzleOrder ==
    [][ /\ pidx' \in {pidx, pidx + 1} /\ pidx' <= NumPuzzles
        /\ Presents => pidx' = pidx + 1
        /\ pidx' # pidx =>
              (pidx = 0 \/ bhist.ended \in {"solved", "skipped", "missing"})
      ]_vars

\* the third puzzle is being presented, after the say that follows the second
C34_Witness ==
    /\ bpc = "puzzle_show" /\ pidx = NumPuzzles /\ bphase = "wait"
    /\ bhist.prevSent = "session_say_next"

\* generate_hint raises: the controller goes from the call that follows the
\* "let me check for a hint" say straight to the end of the process
HintGeneratorRaises == bpc = "puzzle_say_thought" /\ bpc' = "exited"

\* C35: if the hint generator raises while a hint request is handled, the
\* brain terminates with a non-zero exit status, writes no usage record for
\* that request and sends no further command: no say of a hint, no rest.
C35_HintFailureEndsBrain ==
    [][ /\ HintGeneratorRaises =>
              /\ exitStatus' # 0
              /\ bhist'.hints = 1
              /\ bhist'.records = 0 /\ bhist'.recordFor = bhist.recordFor
              /\ bhist'.lastSent = bhist.lastSent /\ bhist'.restSent = bhist.restSent
        /\ bpc = "exited" =>
              /\ bpc' = "exited" /\ exitStatus' = exitStatus
              /\ bhist' = bhist /\ Len(req') <= Len(req)
      ]_vars

\* the brain has ended with status 1 on a hint request of puzzle 2; the last
\* command it sent is the say before the hint, and the listener is idle again
C35_Witness ==
    /\ bpc = "exited" /\ exitStatus = 1 /\ pidx = 2
    /\ bhist.hints = 1 /\ bhist.records = 0 /\ bhist.restSent = 0
    /\ bhist.lastSent = "puzzle_say_thought"
    /\ req = << >> /\ lpc = "recv"

\* login() returned False and main() has returned
LoginFailedAndEnded ==
    bpc = "exited" /\ exitStatus = 0 /\ pingState = "ok" /\ ~servicesUp

\* C36: after a failed login (nothing heard, or credentials rejected) the
\* brain sends exactly one final say and then nothing more, no puzzle command
\* and no rest, and the process ends without running the puzzle session.
C36_FailedLoginOneSay ==
    LoginFailedAndEnded =>
        /\ bhist.lastSent \in {"login_say_noname", "login_say_sorry"}
        /\ bhist.prevSent \in {"login_listen", "login_say_welcome"}
        /\ bhist.restSent = 0

\* C36, the calls of the controller: after a failed login the controller
\* calls say once and the process ends with status 0, without services, puzzle
\* commands or rest, whether or not the socket took the say.
C36_FailedLoginEndsBrain ==
    [][ /\ (bpc \in {"login_say_noname", "login_say_sorry"} /\ bpc' # bpc) =>
              (bpc' = "exited" /\ exitStatus' = 0 /\ ~servicesUp')
        /\ (LoginFailedAndEnded' /\ ~LoginFailedAndEnded) =>
              (bpc \in {"login_say_noname", "login_say_sorry"}
                 /\ bhist'.restSent = 0
                 /\ bhist'.lastSent \notin SessionSites)
      ]_vars
====
